---------------------------- MODULE Spec2Model ----------------------------
(***************************************************************************)
(* A model of the inventory bot (src/bot.py): the name normalizer, the     *)
(* local ledger file, the remote sheet mirror and the message handler.     *)
(*                                                                         *)
(* A Python str is a sequence of one-character strings; a ledger (dict)    *)
(* is a function from keys (such sequences) to integers; the sheet is a    *)
(* sequence of rows, each a sequence of cells, each a str.                 *)
(***************************************************************************)
EXTENDS Integers, Sequences, FiniteSets, TLC

(***************************** characters ********************************)

\* The characters the model's inputs are written in, in code-point order.
Alphabet ==
    << " ", "!", "(", ")", "+", "-",
       "0", "1", "2", "3", "4", "5", "6", "7", "8", "9",
       ":", "?",
       "A", "B", "C", "D", "E", "F", "G", "H", "I", "J", "K", "L", "M",
       "N", "O", "P", "Q", "R", "S", "T", "U", "V", "W", "X", "Y", "Z",
       "_",
       "a", "b", "c", "d", "e", "f", "g", "h", "i", "j", "k", "l", "m",
       "n", "o", "p", "q", "r", "s", "t", "u", "v", "w", "x", "y", "z",
       "ß" >>

Digits == << "0", "1", "2", "3", "4", "5", "6", "7", "8", "9" >>

UpperAlpha ==
    << "A", "B", "C", "D", "E", "F", "G", "H", "I", "J", "K", "L", "M",
       "N", "O", "P", "Q", "R", "S", "T", "U", "V", "W", "X", "Y", "Z" >>

LowerAlpha ==
    << "a", "b", "c", "d", "e", "f", "g", "h", "i", "j", "k", "l", "m",
       "n", "o", "p", "q", "r", "s", "t", "u", "v", "w", "x", "y", "z" >>

Range(s) == { s[i] : i \in 1..Len(s) }

AlphabetSet == Range(Alphabet)
DigitChars  == Range(Digits)
UpperChars  == Range(UpperAlpha)
LowerChars  == Range(LowerAlpha)

\* str.isspace of one character.
IsSpace(c) == c = " "

SpaceChars    == { c \in AlphabetSet : IsSpace(c) }
NonSpaceChars == AlphabetSet \ SpaceChars

\* \w: letters (ß is one), digits and the underscore.
WordChars == LowerChars \cup UpperChars \cup DigitChars \cup {"_", "ß"}

\* \d of one character.
IsDigit(c) == c \in DigitChars

\* \w of one character.
IsWord(c) == c \in WordChars

\* The rank of each character in code-point order (what str comparison uses).
OrdMap == [ c \in AlphabetSet |-> CHOOSE i \in 1..Len(Alphabet) : Alphabet[i] = c ]

Ord(c) == OrdMap[c]

LowerMap ==
    [ c \in UpperChars |->
        LowerAlpha[CHOOSE i \in 1..Len(UpperAlpha) : UpperAlpha[i] = c] ]

UpperMap ==
    [ c \in LowerChars |->
        UpperAlpha[CHOOSE i \in 1..Len(LowerAlpha) : LowerAlpha[i] = c] ]

\* str.lower of one character.
LowerChar(c) == IF c \in UpperChars THEN LowerMap[c] ELSE c

\* str.upper of one character: a str, since "ß".upper() is "SS".
UpperChar(c) ==
    IF c \in LowerChars THEN << UpperMap[c] >>
    ELSE IF c = "ß" THEN << "S", "S" >>
    ELSE << c >>

(******************************* strings *********************************)

SetMin(S) == CHOOSE x \in S : \A y \in S : x <= y
SetMax(S) == CHOOSE x \in S : \A y \in S : y <= x

\* str.lower
Lower(s) == [ i \in 1..Len(s) |-> LowerChar(s[i]) ]

\* str.upper
RECURSIVE Upper(_)
Upper(s) == IF s = << >> THEN << >> ELSE UpperChar(Head(s)) \o Upper(Tail(s))

\* str.strip
Strip(s) ==
    LET idx == { i \in 1..Len(s) : ~IsSpace(s[i]) }
    IN  IF idx = {} THEN << >> ELSE SubSeq(s, SetMin(idx), SetMax(idx))

\* The length of the longest run of characters of the set C that starts at
\* position i of s (0 when s[i] is not in C or i is past the end).
RunIn(s, i, C) ==
    LET stops == { j \in i..Len(s) : s[j] \notin C }
    IN  IF i > Len(s) THEN 0
        ELSE IF stops = {} THEN Len(s) - i + 1
        ELSE SetMin(stops) - i

\* str.split with no argument: the whitespace-separated tokens.
RECURSIVE Split(_)
Split(s) ==
    LET lead == RunIn(s, 1, SpaceChars)
        n    == RunIn(s, lead + 1, NonSpaceChars)
    IN  IF n = 0 THEN << >>
        ELSE << SubSeq(s, lead + 1, lead + n) >>
             \o Split(SubSeq(s, lead + n + 1, Len(s)))

\* re.sub(r"[^\w]", "", s)
StripNonWord(s) == SelectSeq(s, IsWord)

\* a < b for str: lexicographic by code point.
RECURSIVE StrLess(_, _)
StrLess(a, b) ==
    IF b = << >> THEN FALSE
    ELSE IF a = << >> THEN TRUE
    ELSE IF Head(a) = Head(b) THEN StrLess(Tail(a), Tail(b))
    ELSE Ord(Head(a)) < Ord(Head(b))

(******************************* integers ********************************)

DigitValMap == [ c \in DigitChars |-> (CHOOSE i \in 1..Len(Digits) : Digits[i] = c) - 1 ]

DigitVal(c) == DigitValMap[c]

RECURSIVE DigitsVal(_)
DigitsVal(ds) ==
    IF ds = << >> THEN 0
    ELSE 10 * DigitsVal(SubSeq(ds, 1, Len(ds) - 1)) + DigitVal(ds[Len(ds)])

\* int(s): surrounding whitespace is dropped, one optional sign, then digits
\* with single underscores allowed between them; anything else raises
\* ValueError (ok = FALSE).
IntParse(s) ==
    LET t    == Strip(s)
        sgn  == t # << >> /\ t[1] \in {"+", "-"}
        body == IF sgn THEN Tail(t) ELSE t
        good == /\ body # << >>
                /\ \A i \in 1..Len(body) : IsDigit(body[i]) \/ body[i] = "_"
                /\ IsDigit(body[1])
                /\ IsDigit(body[Len(body)])
                /\ \A i \in 1..(Len(body) - 1) : ~(body[i] = "_" /\ body[i + 1] = "_")
        mag  == DigitsVal(SelectSeq(body, IsDigit))
    IN  IF good
        THEN [ok |-> TRUE, val |-> IF sgn /\ t[1] = "-" THEN 0 - mag ELSE mag]
        ELSE [ok |-> FALSE, val |-> 0]

RECURSIVE NatToStr(_)
NatToStr(n) ==
    IF n < 10 THEN << Digits[n + 1] >>
    ELSE NatToStr(n \div 10) \o << Digits[(n % 10) + 1] >>

\* The text of an integer cell as the sheet hands it back.
IntToStr(n) == IF n < 0 THEN << "-" >> \o NatToStr(0 - n) ELSE NatToStr(n)

(***************************** configuration *****************************)

\* Words the model's inputs are written with.
W_inventory == << "i", "n", "v", "e", "n", "t", "o", "r", "y" >>
W_inv       == << "i", "n", "v" >>
W_stock     == << "s", "t", "o", "c", "k" >>
W_list      == << "l", "i", "s", "t" >>
W_inventario == << "i", "n", "v", "e", "n", "t", "a", "r", "i", "o" >>
W_sch       == << "s", "c", "h" >>
W_sh        == << "s", "h" >>
W_schneider == << "s", "c", "h", "n", "e", "i", "d", "e", "r" >>
W_help      == << "h", "e", "l", "p" >>
W_h         == << "h" >>
W_qmark     == << "?" >>
W_set       == << "s", "e", "t" >>
W_dmem      == << "d", "m", "e", "m" >>
W_DMEM      == << "D", "M", "E", "M" >>
W_xyz       == << "x", "y", "z" >>
W_ml        == << "m", "l" >>
W_sz        == << "ß" >>
SP          == << " " >>

INVENTORY_WORDS == { W_inventory, W_inv, W_stock, W_list, W_inventario }

\* ITEM_ALIASES as a function from alias to canonical name.
ITEM_ALIASES == [ a \in { W_sch, W_sh } |-> W_schneider ]

HELP_WORDS == { W_help, W_h, W_qmark }

(******************************** dicts **********************************)

EmptyDict == << >>

\* d.get(k, default)
Get(d, k, default) == IF k \in DOMAIN d THEN d[k] ELSE default

\* d[k] = v
Put(d, k, v) == [ x \in (DOMAIN d) \cup {k} |-> IF x = k THEN v ELSE d[x] ]

\* sorted(keys): the keys in ascending str order.
RECURSIVE SortedKeys(_)
SortedKeys(K) ==
    IF K = {} THEN << >>
    ELSE LET m == CHOOSE x \in K : \A y \in K \ {x} : StrLess(x, y)
         IN  << m >> \o SortedKeys(K \ {m})

(**************************** name normalizer ****************************)

normalize_item_name(raw) ==
    LET key == StripNonWord(Lower(Strip(raw)))
    IN  Get(ITEM_ALIASES, key, key)

(************************* the local ledger file *************************)

\* The file inventory.json: absent, unparsable, or a JSON object, held as
\* the sequence of its members << key, number text >>.
AbsentFile  == [state |-> "absent",  doc |-> << >>]
CorruptFile == [state |-> "corrupt", doc |-> << >>]

\* json.dump of a dict of str -> int.
JsonDump(inv) ==
    LET ks == SortedKeys(DOMAIN inv)
    IN  [ i \in 1..Len(ks) |-> << ks[i], IntToStr(inv[ks[i]]) >> ]

\* json.load of such a document: a later member replaces an earlier one
\* of the same key.
RECURSIVE JsonLoad(_)
JsonLoad(doc) ==
    IF doc = << >> THEN EmptyDict
    ELSE LET m == doc[Len(doc)]
         IN  Put(JsonLoad(SubSeq(doc, 1, Len(doc) - 1)), m[1], IntParse(m[2]).val)

load_inventory(f) ==
    IF f.state = "ok" THEN JsonLoad(f.doc) ELSE EmptyDict

save_inventory(inv) == [state |-> "ok", doc |-> JsonDump(inv)]

(**************************** the remote sheet ***************************)

HeaderRow == << << "M", "e", "d", "i", "u", "m" >>,
                << "V", "o", "l", "u", "m", "e", " ", "(", "m", "l", ")" >> >>

\* What the remote service does with the calls of one pull or one push: all
\* succeed, or one of them raises.  raised: an exception leaves the function;
\* warn: it was caught and the [WARN] line printed.
PullOutcomes == { "ok", "connect_fail", "read_fail" }
PushOutcomes == { "ok", "connect_fail", "clear_fail", "write_fail" }

\* get_sheet: the cached handle if there is one; else a connection, which
\* raises when the service (or the configuration) fails.
get_sheet(cached, outcome) ==
    IF cached THEN [raised |-> FALSE, cached |-> TRUE]
    ELSE IF outcome = "connect_fail" THEN [raised |-> TRUE, cached |-> FALSE]
    ELSE [raised |-> FALSE, cached |-> TRUE]

\* The rows sync_inventory_to_sheets writes, as get_all_values reads them
\* back: the header, then one row per item sorted by key.
SheetData(inv) ==
    LET ks == SortedKeys(DOMAIN inv)
    IN  << HeaderRow >>
        \o [ i \in 1..Len(ks) |-> << Upper(ks[i]), IntToStr(inv[ks[i]]) >> ]

\* A push without its try/except: a failure leaves the function.
sync_uncaught(inv, sheet, cached, outcome) ==
    IF get_sheet(cached, outcome).raised \/ outcome = "clear_fail"
    THEN [sheet |-> sheet, cached |-> get_sheet(cached, outcome).cached,
          raised |-> TRUE, warn |-> TRUE]
    ELSE IF outcome = "write_fail"
    THEN [sheet |-> << >>, cached |-> TRUE, raised |-> TRUE, warn |-> TRUE]
    ELSE [sheet |-> SheetData(inv), cached |-> TRUE, raised |-> FALSE, warn |-> FALSE]

sync_inventory_to_sheets(inv, sheet, cached, outcome) ==
    LET data == SheetData(inv)
        conn == get_sheet(cached, outcome)
    IN  IF conn.raised
        THEN [sheet |-> sheet, cached |-> conn.cached, raised |-> FALSE, warn |-> TRUE]
        ELSE IF outcome = "clear_fail"
        THEN [sheet |-> sheet, cached |-> conn.cached, raised |-> FALSE, warn |-> TRUE]
        ELSE IF outcome = "write_fail"
        THEN [sheet |-> << >>, cached |-> conn.cached, raised |-> FALSE, warn |-> TRUE]
        ELSE [sheet |-> data, cached |-> conn.cached, raised |-> FALSE, warn |-> FALSE]

\* The loop of load_inventory_from_sheet over the rows after the header.
RECURSIVE ParseRows(_)
ParseRows(rows) ==
    IF rows = << >> THEN EmptyDict
    ELSE LET row  == rows[Len(rows)]
             rest == ParseRows(SubSeq(rows, 1, Len(rows) - 1))
         IN  IF Len(row) < 2 THEN rest
             ELSE LET name == Lower(Strip(row[1]))
                      val  == Strip(row[2])
                      n    == IntParse(val)
                  IN  IF name = << >> THEN rest
                      ELSE IF ~n.ok THEN rest
                      ELSE Put(rest, name, n.val)

\* ok = FALSE is the None the function returns on failure.
load_inventory_from_sheet(sheet, cached, outcome) ==
    LET conn == get_sheet(cached, outcome)
    IN  IF conn.raised
        THEN [ok |-> FALSE, inv |-> EmptyDict, cached |-> conn.cached]
        ELSE IF outcome = "read_fail"
        THEN [ok |-> FALSE, inv |-> EmptyDict, cached |-> conn.cached]
        ELSE IF Len(sheet) < 2
        THEN [ok |-> TRUE, inv |-> EmptyDict, cached |-> conn.cached]
        ELSE [ok |-> TRUE, inv |-> ParseRows(Tail(sheet)), cached |-> conn.cached]

(************************** ledger mutations *****************************)

\* An update that clamps the total at zero.
update_item_clamped(inv, raw_name, delta_ml, sheet, cached, outcome) ==
    LET item_key  == normalize_item_name(raw_name)
        sum       == Get(inv, item_key, 0) + delta_ml
        new_value == IF sum < 0 THEN 0 ELSE sum
        inv2      == Put(inv, item_key, new_value)
        s         == sync_inventory_to_sheets(inv2, sheet, cached, outcome)
    IN  [inv |-> inv2, file |-> save_inventory(inv2), sheet |-> s.sheet,
         cached |-> s.cached, raised |-> s.raised, warn |-> s.warn,
         key |-> item_key, total |-> new_value]

update_item(inv, raw_name, delta_ml, sheet, cached, outcome) ==
    LET item_key  == normalize_item_name(raw_name)
        current   == Get(inv, item_key, 0)
        new_value == current + delta_ml
        inv2      == Put(inv, item_key, new_value)
        f         == save_inventory(inv2)
        s         == sync_inventory_to_sheets(inv2, sheet, cached, outcome)
    IN  [inv |-> inv2, file |-> f, sheet |-> s.sheet, cached |-> s.cached,
         raised |-> s.raised, warn |-> s.warn, key |-> item_key, total |-> new_value]

\* A set that adds the amount to what the key held.
set_item_adding(inv, raw_name, amount_ml, sheet, cached, outcome) ==
    update_item(inv, raw_name, amount_ml, sheet, cached, outcome)

set_item(inv, raw_name, amount_ml, sheet, cached, outcome) ==
    LET item_key == normalize_item_name(raw_name)
        inv2     == Put(inv, item_key, amount_ml)
        f        == save_inventory(inv2)
        s        == sync_inventory_to_sheets(inv2, sheet, cached, outcome)
    IN  [inv |-> inv2, file |-> f, sheet |-> s.sheet, cached |-> s.cached,
         raised |-> s.raised, warn |-> s.warn, key |-> item_key, total |-> amount_ml]

(******************************** replies ********************************)

\* A message sent to the channel: which text it is and the values in it.
Reply(kind, item, amount, lines) ==
    [kind |-> kind, item |-> item, amount |-> amount, lines |-> lines]

NoReply == Reply("none", << >>, 0, << >>)

send_help == Reply("help", << >>, 0, << >>)

send_full_inventory(inv) ==
    IF DOMAIN inv = {} THEN Reply("empty", << >>, 0, << >>)
    ELSE LET ks == SortedKeys(DOMAIN inv)
         IN  Reply("full", << >>, 0, [ i \in 1..Len(ks) |-> << ks[i], inv[ks[i]] >> ])

send_single_item_inventory(inv, item_key, original_query) ==
    IF item_key \in DOMAIN inv
    THEN Reply("single", item_key, inv[item_key], << >>)
    ELSE Reply("notfound", original_query, 0, << >>)

\* bot.process_commands with command_prefix "!" and the one command "help":
\* the message text as sent, the prefix, then the command's name up to the
\* next whitespace.
process_commands(text) ==
    LET n == RunIn(text, 2, NonSpaceChars)
    IN  IF text # << >> /\ text[1] = "!" /\ SubSeq(text, 2, 1 + n) = W_help
        THEN send_help
        ELSE NoReply

(*************************** command interpreter *************************)

\* 1) tokens[0] in {"help", "h", "?"} and len(tokens) <= 2
HelpMatch(tokens) == tokens[1] \in HELP_WORDS /\ Len(tokens) <= 2

\* 2) the first token, stripped of non-word characters, is an inventory word
ListMatch(tokens) == StripNonWord(tokens[1]) \in INVENTORY_WORDS

\* A bare lookup that takes every one-token message.
BareMatchAnyToken(tokens, inv) == Len(tokens) = 1

\* 3) one token whose normalized form is a key of the ledger
BareMatch(tokens, inv) ==
    Len(tokens) = 1 /\ normalize_item_name(tokens[1]) \in DOMAIN inv

\* Whether position q of s (between s[q] and s[q+1]) is a \b.
WordBoundary(s, q) ==
    LET before == q >= 1 /\ q <= Len(s) /\ IsWord(s[q])
        after  == q + 1 <= Len(s) /\ IsWord(s[q + 1])
    IN  before # after

\* After p characters of s: past a run of whitespace (\s*).
SkipSpaces(s, p) == p + RunIn(s, p + 1, SpaceChars)

\* After p characters of s: past one colon, if there is one (:?).
SkipColon(s, p) == IF p < Len(s) /\ s[p + 1] = ":" THEN p + 1 ELSE p

\* The places where a match whose amount ends after e characters can end:
\* the choices of \s* and (?:ml)? that leave the matcher at a \b.
MatchEnds(s, e) ==
    { q \in 0..Len(s) :
        \E t \in 0..RunIn(s, e + 1, SpaceChars), ml \in BOOLEAN :
            /\ q = e + t + (IF ml THEN 2 ELSE 0)
            /\ ml => /\ LowerChar(s[e + t + 1]) = "m"
                     /\ LowerChar(s[e + t + 2]) = "l"
            /\ WordBoundary(s, q) }

\* The match, given the name's length n1, the characters p before the sign
\* and the number nd of digits after it.
MatchAt(s, n1, p, nd, ends) ==
    IF n1 >= 1 /\ p < Len(s) /\ s[p + 1] \in {"+", "-"} /\ nd >= 1 /\ ends # {}
    THEN [matched |-> TRUE, name |-> SubSeq(s, 1, n1),
          amount |-> SubSeq(s, p + 1, p + 1 + nd), ends |-> ends]
    ELSE [matched |-> FALSE, name |-> << >>, amount |-> << >>, ends |-> {}]

MatchAmount(s, n1, p, nd) == MatchAt(s, n1, p, nd, MatchEnds(s, p + 1 + nd))

MatchSign(s, n1, p) == MatchAmount(s, n1, p, RunIn(s, p + 2, DigitChars))

MatchName(s, n1) == MatchSign(s, n1, SkipSpaces(s, SkipColon(s, SkipSpaces(s, n1))))

\* 4) re.match of
\*      ^(?P<name>\w+)\s*:?\s*(?P<amount>[+-]\d+)\s*(?:ml)?\b
\*    with re.IGNORECASE.  The name is the word run at the start and the
\*    amount the sign with the digit run after it: no shorter choice of \w+
\*    or \d+ lets the rest of the pattern match.
UpdateMatch(content) == MatchName(content, RunIn(content, 1, WordChars))

\* 5) tokens[0] == "set" and len(tokens) >= 3
SetMatch(tokens) == tokens[1] = W_set /\ Len(tokens) >= 3

\* The classifiers with the update pattern tried first.
ClassifyUpdateFirst(content, tokens, inv) ==
    IF UpdateMatch(content).matched THEN "update"
    ELSE IF HelpMatch(tokens) THEN "help"
    ELSE IF ListMatch(tokens) THEN "list"
    ELSE IF BareMatch(tokens, inv) THEN "lookup"
    ELSE IF SetMatch(tokens) THEN "set"
    ELSE "passthrough"

\* The classifiers in the order on_message tries them.
Classify(content, tokens, inv) ==
    IF HelpMatch(tokens) THEN "help"
    ELSE IF ListMatch(tokens) THEN "list"
    ELSE IF BareMatch(tokens, inv) THEN "lookup"
    ELSE IF UpdateMatch(content).matched THEN "update"
    ELSE IF SetMatch(tokens) THEN "set"
    ELSE "passthrough"

(***************************** message handler ***************************)

\* A resync that takes an empty pulled mapping for a failure.
ResyncUnlessEmpty(f, pull) ==
    IF pull.ok /\ pull.inv # EmptyDict THEN save_inventory(pull.inv) ELSE f

\* The resync at the start of on_message: the pulled mapping replaces the
\* local file unless the pull returned None.
Resync(f, pull) == IF pull.ok THEN save_inventory(pull.inv) ELSE f

\* What a run of on_message leaves and does, when it wrote nothing: f1 is
\* the file after the resync.
NoWrite(f1, sheet, pull, intent, reply) ==
    [file |-> f1, sheet |-> sheet, cached |-> pull.cached,
     intent |-> intent, reply |-> reply, pullOk |-> pull.ok,
     synced |-> f1, pushed |-> FALSE, warn |-> FALSE, raised |-> FALSE,
     key |-> << >>, by |-> 0, total |-> 0]

\* The confirmation on_message sends after update_item or set_item
\* returned u = (canonical_name, new_total).
Confirm(intent, u, by) ==
    IF intent = "update" THEN Reply("updated", u.key, u.total, << by >>)
    ELSE Reply("set", u.key, u.total, << >>)

\* The same when it called update_item or set_item, which returned u: an
\* exception leaving u would leave on_message before its send.
Write(f1, pull, intent, u, by) ==
    [file |-> u.file, sheet |-> u.sheet, cached |-> u.cached,
     intent |-> intent,
     reply |-> IF u.raised THEN NoReply ELSE Confirm(intent, u, by),
     pullOk |-> pull.ok, synced |-> f1, pushed |-> TRUE,
     warn |-> u.warn, raised |-> u.raised,
     key |-> u.key, by |-> by, total |-> u.total]

\* Branch 4, after the pattern matched as m and int(amount_str) gave d.
UpdateBranch(f1, sheet, pull, inv, m, d, pushOutcome) ==
    IF ~d.ok
    THEN NoWrite(f1, sheet, pull, "update_usage", Reply("usage_update", << >>, 0, << >>))
    ELSE Write(f1, pull, "update",
               update_item(inv, m.name, d.val, sheet, pull.cached, pushOutcome),
               d.val)

\* Branch 5, after int(amount_str) gave a.
SetBranch(f1, sheet, pull, inv, item_raw, a, pushOutcome) ==
    IF ~a.ok
    THEN NoWrite(f1, sheet, pull, "set_usage", Reply("usage_set", << >>, 0, << >>))
    ELSE Write(f1, pull, "set",
               set_item(inv, item_raw, a.val, sheet, pull.cached, pushOutcome),
               0)

\* The branch of on_message that class selects.
Dispatch(class, f1, sheet, pull, text, content, tokens, inv, pushOutcome) ==
    CASE class = "help" -> NoWrite(f1, sheet, pull, "help", send_help)
      [] class = "list" ->
            IF Len(tokens) = 1
            THEN NoWrite(f1, sheet, pull, "list_all", send_full_inventory(inv))
            ELSE NoWrite(f1, sheet, pull, "list_one",
                         send_single_item_inventory(
                             inv, normalize_item_name(tokens[2]), tokens[2]))
      [] class = "lookup" ->
            NoWrite(f1, sheet, pull, "lookup",
                    send_single_item_inventory(
                        inv, normalize_item_name(tokens[1]), tokens[1]))
      [] class = "update" ->
            UpdateBranch(f1, sheet, pull, inv, UpdateMatch(content),
                         IntParse(UpdateMatch(content).amount), pushOutcome)
      [] class = "set" ->
            SetBranch(f1, sheet, pull, inv, tokens[2], IntParse(tokens[3]),
                      pushOutcome)
      [] OTHER -> NoWrite(f1, sheet, pull, "passthrough", process_commands(text))

\* on_message from "tokens = content.split()" on.
Interpret(f1, sheet, pull, text, content, tokens, inv, pushOutcome) ==
    Dispatch(Classify(content, tokens, inv),
             f1, sheet, pull, text, content, tokens, inv, pushOutcome)

\* on_message after the resync left the file as f1.
AfterResync(f1, sheet, pull, text, pushOutcome) ==
    IF Strip(text) = << >>
    THEN NoWrite(f1, sheet, pull, "empty", NoReply)
    ELSE Interpret(f1, sheet, pull, text, Lower(Strip(text)),
                   Split(Lower(Strip(text))), load_inventory(f1), pushOutcome)

\* on_message after the pull returned.
AfterPull(f, sheet, pull, text, pushOutcome) ==
    AfterResync(Resync(f, pull), sheet, pull, text, pushOutcome)

\* on_message for a message whose author is not a bot: the state it leaves
\* and what it does.  Everything up to the handler's first await runs without
\* suspension; the await (a send, or process_commands) is the last thing every
\* branch does, so reply is what that await sends.
on_message(f, sheet, cached, text, pullOutcome, pushOutcome) ==
    AfterPull(f, sheet, load_inventory_from_sheet(sheet, cached, pullOutcome),
              text, pushOutcome)

(******************************** bounds *********************************)

\* Messages handled in one run of Spec.
MaxMsgs == 1

\* Messages handled in one run of SpecRun.
MaxRun == 2

(******************************** inputs *********************************)

\* The message texts the handler is driven with.
Messages ==
    { W_help,                                         \* help
      W_h \o SP \o << "-", "5" >>,                    \* h -5
      W_inv,                                          \* inv
      W_inv \o SP \o W_sch,                           \* inv sch
      W_inv \o << ":" >> \o SP \o << "-", "5" >>,     \* inv: -5
      W_dmem,                                         \* dmem
      W_dmem \o SP \o << "-", "2" >>,                 \* dmem -2
      W_DMEM \o << ":" >> \o SP \o << "+", "3" >> \o W_ml,   \* DMEM: +3ml
      W_sch \o SP \o << "+", "1" >>,                  \* sch +1
      W_dmem \o << "-", "2" >>,                       \* dmem-2
      W_dmem \o SP \o << "2" >>,                      \* dmem 2
      W_dmem \o SP \o << "-", "2" >> \o SP \o W_xyz,  \* dmem -2 xyz
      W_sz \o SP \o << "+", "1" >>,                   \* ß +1
      W_set \o SP \o W_dmem \o SP \o << "5" >>,       \* set dmem 5
      W_set \o SP \o << "!", "!" >> \o SP \o << "4" >>,      \* set !! 4
      W_set \o SP \o W_dmem \o SP \o W_xyz,           \* set dmem xyz
      W_set \o SP \o << "+", "1" >> \o SP \o << "7" >>,      \* set +1 7
      << "!" >> \o W_help,                            \* !help
      << "!" >> \o W_xyz,                             \* !xyz
      SP }                                            \* blank

\* Contents the sheet may have when the bot starts, or be given by hand.
InitialSheets ==
    { << >>,
      << HeaderRow >>,
      << HeaderRow, << W_DMEM, << "5" >> >>, << W_schneider, << "2" >> >> >>,
      << HeaderRow,
         << W_sch, << "3" >> >>,                       \* an alias as a name
         << << "x", " ", "y" >>, << " ", "7", " " >> >>,   \* a name with a space
         << W_xyz, W_xyz >>,                           \* no integer
         << W_xyz >>,                                  \* one cell
         << SP, << "1" >> >> >> }                      \* a blank name

\* Contents inventory.json may have when the bot starts.
InitialFiles ==
    { AbsentFile, CorruptFile, save_inventory(Put(EmptyDict, W_dmem, 9)) }

(********************************* state *********************************)

VARIABLES
    file,      \* inventory.json
    sheet,     \* the remote sheet's rows
    gsheet,    \* whether _gsheet holds a handle
    h,         \* the last message handled: what on_message saw and did
    handled,   \* messages handled so far
    base,      \* the ledger the sheet held at the start
    sums,      \* per key, the sum of the deltas applied since the start
    clean      \* so far: delta updates only, remote healthy, no edit by hand

vars == << file, sheet, gsheet, h, handled, base, sums, clean >>

\* The ledger the sheet holds, as a pull reads it.
SheetInv(sh) == load_inventory_from_sheet(sh, TRUE, "ok").inv

\* h before any message.  returned: the handler has left its final await.
Idle ==
    [text |-> << >>, before |-> AbsentFile, sheetBefore |-> << >>,
     returned |-> TRUE,
     file |-> AbsentFile, sheet |-> << >>, cached |-> FALSE,
     intent |-> "idle", reply |-> NoReply, pullOk |-> FALSE,
     synced |-> AbsentFile, pushed |-> FALSE, warn |-> FALSE, raised |-> FALSE,
     key |-> << >>, by |-> 0, total |-> 0]

Init ==
    /\ file \in InitialFiles
    /\ sheet \in InitialSheets
    /\ gsheet = FALSE
    /\ h = Idle
    /\ handled = 0
    /\ base = SheetInv(sheet)
    /\ sums = EmptyDict
    /\ clean = TRUE

\* What the remote service may do with a pull now: connecting can only fail
\* while no handle is cached.
PullChoices ==
    IF gsheet THEN PullOutcomes \ { "connect_fail" } ELSE PullOutcomes

\* What the remote service may do with the push of a handler (r0: the
\* handler's run with a push that succeeds; pull: what its pull returned).
\* Connecting can only fail while the pull left no handle cached.
PushChoices(r0, pull) ==
    IF ~r0.pushed THEN { "ok" }
    ELSE IF pull.cached THEN PushOutcomes \ { "connect_fail" }
    ELSE PushOutcomes

\* Whether a run that ended as r met a healthy remote and was a delta update.
CleanRun(r) == r.intent = "update" /\ r.pullOk /\ ~r.warn /\ ~r.raised

\* The state after on_message ran for text and ended as r.
Handled(text, r) ==
    /\ handled' = handled + 1
    /\ file' = r.file
    /\ sheet' = r.sheet
    /\ gsheet' = r.cached
    /\ h' = [text |-> text, before |-> file, sheetBefore |-> sheet,
             returned |-> (r.intent = "empty")] @@ r
    /\ clean' = (clean /\ CleanRun(r))
    /\ sums' = IF clean /\ CleanRun(r)
               THEN Put(sums, r.key, Get(sums, r.key, 0) + r.by)
               ELSE EmptyDict
    /\ base' = IF clean /\ CleanRun(r) THEN base ELSE EmptyDict

\* on_message runs for text under each outcome its push may have (r0: its
\* run with a push that succeeds).
Pushing(text, pullOutcome, r0) ==
    \E pushOutcome \in
           PushChoices(r0, load_inventory_from_sheet(sheet, gsheet, pullOutcome)) :
        Handled(text,
                IF pushOutcome = "ok" THEN r0
                ELSE on_message(file, sheet, gsheet, text, pullOutcome, pushOutcome))

\* on_message runs for a message of a user, up to its final await; earlier
\* handlers may still be suspended in theirs.
OnMessage(limit) ==
    /\ handled < limit
    /\ \E text \in Messages, pullOutcome \in PullChoices :
         Pushing(text, pullOutcome,
                 on_message(file, sheet, gsheet, text, pullOutcome, "ok"))

\* on_message runs for a message whose author is a bot: it returns at once.
OnBotMessage(limit) ==
    /\ handled < limit
    /\ handled' = handled + 1
    /\ h' = [Idle EXCEPT !.intent = "ignored"]
    /\ clean' = FALSE
    /\ sums' = EmptyDict
    /\ base' = EmptyDict
    /\ UNCHANGED << file, sheet, gsheet >>

\* The await the last handler is suspended in completes, and it returns.
SendCompletes ==
    /\ ~h.returned
    /\ h' = [h EXCEPT !.returned = TRUE]
    /\ UNCHANGED << file, sheet, gsheet, handled, base, sums, clean >>

\* Someone edits the sheet by hand (one edit stands for any number of them
\* between two messages).
ExternalEdit ==
    /\ h.intent # "edited"
    /\ sheet' \in InitialSheets \ {sheet}
    /\ h' = [Idle EXCEPT !.intent = "edited"]
    /\ clean' = FALSE
    /\ sums' = EmptyDict
    /\ base' = EmptyDict
    /\ UNCHANGED << file, gsheet, handled >>

Next ==
    \/ OnMessage(MaxMsgs)
    \/ OnBotMessage(MaxMsgs)
    \/ SendCompletes
    \/ ExternalEdit

Spec == Init /\ [][Next]_vars

NextRun ==
    \/ OnMessage(MaxRun)
    \/ OnBotMessage(MaxRun)
    \/ SendCompletes
    \/ ExternalEdit

\* The same program, run for longer.
SpecRun == Init /\ [][NextRun]_vars

(******************************** claims *********************************)

\* h records a message of a user that on_message handled.
IsMsg == h.intent \notin { "idle", "edited", "ignored" }

\* What on_message classified in the last message.
Content == Lower(Strip(h.text))
Tokens  == Split(Content)

\* The ledger as the resync of the last message left it, and as it is now.
SyncedInv == load_inventory(h.synced)
LocalInv  == load_inventory(file)

\* Raw item names and amounts the pure operations are tried on.
RawNames == { W_dmem, W_DMEM, W_sch, << "!", "!" >> }
Deltas   == { -500, 0, 2 }
Amounts  == { -3, 0, 1000 }

(* C1 *)
\* C1: at the start of every handled message the local file is resynced: a
\* failed pull leaves the file exactly as it was, a successful pull makes the
\* file hold exactly the pulled mapping, an empty one included.
C1_ResyncFromRemote ==
    IsMsg =>
        /\ ~h.pullOk => h.synced = h.before
        /\ h.pullOk => /\ h.synced.state = "ok"
                       /\ SyncedInv = SheetInv(h.sheetBefore)
                       /\ Len(h.sheetBefore) < 2 => SyncedInv = EmptyDict

\* An empty but valid remote replaced a local ledger that had items.
C1_Witness ==
    /\ IsMsg
    /\ h.pullOk
    /\ SheetInv(h.sheetBefore) = EmptyDict
    /\ load_inventory(h.before) # EmptyDict
    /\ SyncedInv = EmptyDict

(* C2 *)
\* C2: when the push of an update or a set fails at any step, nothing is
\* raised, the local file holds the new value under the canonical key (the
\* file a successful push would have left), and the confirmation carrying
\* (canonical_name, new_total) is sent.
C2_PushFailureContained ==
    (h.intent \in { "update", "set" } /\ h.warn) =>
        /\ ~h.raised
        /\ h.key \in DOMAIN LocalInv
        /\ LocalInv[h.key] = h.total
        /\ h.intent = "update" => h.total = Get(SyncedInv, h.key, 0) + h.by
        /\ h.intent = "set" => h.total = IntParse(Tokens[3]).val
        /\ file = save_inventory(Put(SyncedInv, h.key, h.total))
        /\ h.reply.kind = (IF h.intent = "update" THEN "updated" ELSE "set")
        /\ h.reply.item = h.key
        /\ h.reply.amount = h.total

\* A push failed after the sheet was cleared, and the update went through
\* locally.
C2_Witness ==
    /\ h.intent = "update"
    /\ h.warn
    /\ h.sheetBefore # << >>
    /\ sheet = << >>
    /\ h.reply.kind = "updated"

\* Whether update(name, d) then update(name, -d), which ended as u2, put inv
\* back: the key at its original quantity (0 when absent), the rest untouched.
RestoredBy(inv, key, u2) ==
    /\ u2.key = key
    /\ u2.total = Get(inv, key, 0)
    /\ DOMAIN u2.inv = (DOMAIN inv) \cup { key }
    /\ u2.inv[key] = Get(inv, key, 0)
    /\ \A k \in (DOMAIN inv) \ { key } : u2.inv[k] = inv[k]
    /\ load_inventory(u2.file) = u2.inv

\* The second update runs on the ledger the first one saved.
UpdateBack(inv, name, d, u1) ==
    RestoredBy(inv, u1.key,
               update_item(load_inventory(u1.file), name, 0 - d,
                           u1.sheet, u1.cached, "ok"))

\* Every update(name, +d) then update(name, -d) puts inv back.
UpdatesRestore(inv) ==
    \A name \in RawNames, d \in Deltas :
        UpdateBack(inv, name, d, update_item(inv, name, d, sheet, gsheet, "ok"))

(* C3 *)
\* C3: for every ledger, name and d, update(name, +d) followed by
\* update(name, -d) restores the quantity of the canonical key (0 if it was
\* absent) and leaves every other key's quantity unchanged.
C3_UpdateRoundTrip == UpdatesRestore(LocalInv)

\* An update by a negative delta acted on a key the ledger had, beside others.
C3_Witness ==
    /\ h.intent = "update"
    /\ h.by < 0
    /\ h.key \in DOMAIN SyncedInv
    /\ Cardinality(DOMAIN LocalInv) >= 2

\* Whether set(name, N), which ended as u, makes load() report N.
ReportsAfterSet(name, N, u) ==
    /\ normalize_item_name(name) \in DOMAIN load_inventory(u.file)
    /\ load_inventory(u.file)[normalize_item_name(name)] = N

\* Every set(name, N) on inv makes load() report N.
SetsReport(inv) ==
    \A name \in RawNames, N \in Amounts :
        ReportsAfterSet(name, N, set_item(inv, name, N, sheet, gsheet, "ok"))

(* C4 *)
\* C4: for every ledger, name and N, after set(name, N) a load() of the local
\* file reports exactly N for the canonical key of name, whatever was there
\* before; aliases and names that normalize to the empty string included.
C4_SetThenLoad ==
    /\ SetsReport(LocalInv)
    /\ h.intent = "set" =>
           /\ h.key = normalize_item_name(Tokens[2])
           /\ h.key \in DOMAIN LocalInv
           /\ LocalInv[h.key] = IntParse(Tokens[3]).val

\* A set replaced a different prior value of a key.
C4_Witness ==
    /\ h.intent = "set"
    /\ h.key \in DOMAIN SyncedInv
    /\ SyncedInv[h.key] # h.total
    /\ LocalInv[h.key] = h.total

\* A canonical item key: lower-case, word characters only, not an alias.
IsCanonical(k) ==
    /\ \A i \in 1..Len(k) : IsWord(k[i]) /\ k[i] \notin UpperChars
    /\ k \notin DOMAIN ITEM_ALIASES

(* C5 *)
\* C5: in every reachable state, whatever the remote table holds, every key
\* of the local ledger is a canonical item key.
C5_KeysCanonical == \A k \in DOMAIN LocalInv : IsCanonical(k)

\* Whether the whole of content has the form
\* <word><optional colon/space><signed integer><optional "ml">.
IsWholeUpdateForm(content) ==
    /\ UpdateMatch(content).matched
    /\ Len(content) \in UpdateMatch(content).ends

(* C6 *)
\* C6: a message is classified as a delta update only if the whole message has
\* the update form: there is an explicit sign, and nothing follows the amount
\* and its optional "ml".
C6_UpdateOnlyWholeForm ==
    h.intent \in { "update", "update_usage" } => IsWholeUpdateForm(Content)

\* The last message is one token that is no help keyword and no inventory
\* synonym, and whose normalized form is not a key of the ledger.
UnknownSingleToken ==
    /\ IsMsg
    /\ Len(Tokens) = 1
    /\ Tokens[1] \notin HELP_WORDS
    /\ StripNonWord(Tokens[1]) \notin INVENTORY_WORDS
    /\ normalize_item_name(Tokens[1]) \notin DOMAIN SyncedInv

\* Handling the last message wrote nothing: the file and the sheet are as the
\* resync left them.
NothingWritten ==
    /\ ~h.pushed
    /\ file = h.synced
    /\ sheet = h.sheetBefore

\* C7 as claimed: every such message gets no reply and writes nothing.
C7_UnknownTokenInert ==
    UnknownSingleToken => (h.reply = NoReply /\ NothingWritten)

(* C7 *)
\* C7, amended: every such message that does not match the delta-update
\* pattern is passed through and writes nothing; it gets no reply unless its
\* token is the prefixed command "!help", and the message "!help" is answered
\* with the help.
C7_UnknownTokenPassthrough ==
    (UnknownSingleToken /\ ~UpdateMatch(Content).matched) =>
        /\ h.intent = "passthrough"
        /\ NothingWritten
        /\ h.reply \in { NoReply, send_help }
        /\ h.reply = send_help => Tokens[1] = << "!" >> \o W_help
        /\ h.text = << "!" >> \o W_help => h.reply = send_help

\* A lone unknown word was handled: no reply, nothing written.
C7_Witness ==
    /\ UnknownSingleToken
    /\ ~UpdateMatch(Content).matched
    /\ Strip(h.text)[1] # "!"
    /\ h.reply = NoReply
    /\ h.pullOk
    /\ SyncedInv # EmptyDict

\* The intents the classifiers stand for, first match first.
FirstMatch(content, tokens, inv) ==
    IF HelpMatch(tokens) THEN { "help" }
    ELSE IF ListMatch(tokens) THEN { "list_all", "list_one" }
    ELSE IF BareMatch(tokens, inv) THEN { "lookup" }
    ELSE IF UpdateMatch(content).matched THEN { "update", "update_usage" }
    ELSE IF SetMatch(tokens) THEN { "set", "set_usage" }
    ELSE { "passthrough" }

(* C8 *)
\* C8: each handled message triggers exactly the intent of the first
\* classifier that matches, in the order help, list, bare lookup, delta
\* update, absolute set, passthrough; and the ledger is written only by the
\* delta-update and absolute-set intents.
C8_FirstMatchWins ==
    (IsMsg /\ h.intent # "empty") =>
        /\ h.intent \in FirstMatch(Content, Tokens, SyncedInv)
        /\ h.intent \notin { "update", "set" } => NothingWritten
        /\ h.intent \in { "update", "set" } => h.pushed

\* A message with a help keyword first, or an inventory synonym first, that
\* also has the shape of a delta update, changed nothing.
C8_Witness ==
    /\ h.intent \in { "help", "list_one" }
    /\ UpdateMatch(Content).matched
    /\ NothingWritten
    /\ SyncedInv # EmptyDict

(* C9 *)
\* C9: push followed by pull is the identity: after an update or a set whose
\* push succeeded, a pull of the sheet returns exactly the local ledger.
C9_PushPullIdentity ==
    (h.intent \in { "update", "set" } /\ ~h.warn /\ ~h.raised) =>
        SheetInv(sheet) = LocalInv

\* The quantity the sheet holds for key k: that of the row push writes for k.
RemoteQty(k) == Get(SheetInv(sheet), Lower(Upper(k)), 0)

(* C10 *)
\* C10: with a healthy remote and no edit by hand, after any sequence of
\* delta updates each key's quantity, in the local ledger and in the sheet,
\* is its initial remote quantity plus the sum of the deltas applied to it.
C10_NoLostUpdate ==
    (clean /\ handled > 0) =>
        \A k \in (DOMAIN base) \cup (DOMAIN sums) \cup (DOMAIN LocalInv) :
            /\ Get(LocalInv, k, 0) = Get(base, k, 0) + Get(sums, k, 0)
            /\ RemoteQty(k) = Get(base, k, 0) + Get(sums, k, 0)

=============================================================================
